---- MODULE Spec2Model ----
(***************************************************************************)
(* Model of package pdftohtml (dosadczuk/go-pdftohtml): the command        *)
(* builder NewCommand with its functional options, and the methods Run     *)
(* and String, which hand the accumulated arguments to os/exec.            *)
(*                                                                         *)
(* c.args is a Go slice: a backing array `arr` (Len(arr) is the capacity)  *)
(* of which the first `alen` elements are the slice.  append writes in     *)
(* place when the capacity allows and reallocates otherwise, so the        *)
(* capacity is part of the state.                                          *)
(***************************************************************************)
EXTENDS Integers, Sequences, FiniteSets, TLC

\* Longest option list passed to NewCommand.
MaxOpts == 3

(***************************************************************************)
(* strconv                                                                 *)
(***************************************************************************)
Digit == <<"0", "1", "2", "3", "4", "5", "6", "7", "8", "9">>

RECURSIVE FormatUint(_)
\* strconv.FormatUint(n, 10): decimal digits, no sign, no leading zeros.
FormatUint(n) ==
    IF n < 10 THEN Digit[n + 1]
    ELSE FormatUint(n \div 10) \o Digit[(n % 10) + 1]

RECURSIVE Pow10(_)
Pow10(k) == IF k = 0 THEN 1 ELSE 10 * Pow10(k - 1)

RECURSIVE NumDigits(_)
NumDigits(n) == IF n < 10 THEN 1 ELSE 1 + NumDigits(n \div 10)

\* strconv.FormatFloat(v, 'e', 2, 64) for a finite v >= 0 given in
\* thousandths (v = milli / 1000; the inputs used are multiples of 1/8, so
\* v is exactly a float64).  Three significant digits, rounded half to even
\* on the exact value, and an exponent of at least two digits.
FormatFloat(milli) ==
    IF milli = 0 THEN "0.00e+00"
    ELSE
      LET d     == NumDigits(milli)
          unit  == IF d > 3 THEN Pow10(d - 3) ELSE 1
          q     == IF d > 3 THEN milli \div unit ELSE milli * Pow10(3 - d)
          r     == IF d > 3 THEN milli % unit ELSE 0
          up    == d > 3 /\ (2 * r > unit \/ (2 * r = unit /\ q % 2 = 1))
          q1    == IF up THEN q + 1 ELSE q
          carry == q1 = 1000
          sig   == IF carry THEN 100 ELSE q1
          e     == (d - 4) + (IF carry THEN 1 ELSE 0)
          mag   == IF e < 0 THEN 0 - e ELSE e
      IN  Digit[(sig \div 100) + 1] \o "." \o Digit[((sig \div 10) % 10) + 1]
            \o Digit[(sig % 10) + 1] \o "e"
            \o (IF e < 0 THEN "-" ELSE "+")
            \o (IF mag < 10 THEN "0" ELSE "") \o FormatUint(mag)

(***************************************************************************)
(* Go slices: append and the runtime's growth rule for 16-byte elements    *)
(***************************************************************************)
\* The allocator's size classes (bytes) that a []string of up to 64
\* elements can be rounded to.
SizeClasses ==
    {16, 32, 48, 64, 80, 96, 112, 128, 144, 160, 176, 192, 208, 224, 240,
     256, 288, 320, 352, 384, 416, 448, 480, 512, 576, 640, 704, 768, 896,
     1024}

\* runtime.growslice: the capacity of the array allocated when a slice of
\* capacity oldCap must hold newLen strings: newLen when that is more than
\* twice oldCap, else twice oldCap, rounded up to a size class.  (From 256
\* elements on the runtime grows by less than doubling; no slice of this
\* model gets there.)
GrowCap(oldCap, newLen) ==
    LET want  == IF newLen > 2 * oldCap THEN newLen ELSE 2 * oldCap
        bytes == CHOOSE s \in SizeClasses :
                    /\ s >= 16 * want
                    /\ \A t \in SizeClasses : t >= 16 * want => s <= t
    IN  bytes \div 16

Zeros(n) == [i \in 1..n |-> ""]

\* append(s, toks...) for the slice s = a[0:n] over the backing array a:
\* the backing array and length of the result.
GoAppend(a, n, toks) ==
    IF n + Len(toks) <= Len(a)
    THEN [arr  |-> [i \in 1..Len(a) |->
                       IF i > n /\ i <= n + Len(toks) THEN toks[i - n] ELSE a[i]],
          len  |-> n + Len(toks),
          same |-> TRUE]
    ELSE [arr  |-> SubSeq(a, 1, n) \o toks
                     \o Zeros(GrowCap(Len(a), n + Len(toks)) - (n + Len(toks))),
          len  |-> n + Len(toks),
          same |-> FALSE]

(***************************************************************************)
(* Options                                                                 *)
(***************************************************************************)
\* An option value: the constructor and its arguments (str: the string
\* argument, n1/n2: the integer arguments, or the float in thousandths).
Opt(kind, str, n1, n2) == [kind |-> kind, str |-> str, n1 |-> n1, n2 |-> n2]

DefaultPath == "/usr/bin/pdftohtml"

FlagOptions ==
    {"WithOutdirOverwrite", "WithEmbededBackground", "WithNoFonts",
     "WithEmbededFonts", "WithNoInvisibleText", "WithAllInvisibleText",
     "WithFormFields", "WithMeta", "WithModeTable"}

\* The flag of each option that appends one.
FlagOf(kind) ==
    CASE kind = "WithCustomConfig"      -> "-cfg"
      [] kind = "WithOutdirOverwrite"   -> "-overwrite"
      [] kind = "WithPageFrom"          -> "-f"
      [] kind = "WithPageTo"            -> "-l"
      [] kind = "WithInitialZoom"       -> "-z"
      [] kind = "WithResolution"        -> "-r"
      [] kind = "WithVerticalStretch"   -> "-vstretch"
      [] kind = "WithEmbededBackground" -> "-embedbackground"
      [] kind = "WithNoFonts"           -> "-nofonts"
      [] kind = "WithEmbededFonts"      -> "-embedfonts"
      [] kind = "WithNoInvisibleText"   -> "-skipinvisible"
      [] kind = "WithAllInvisibleText"  -> "-allinvisible"
      [] kind = "WithFormFields"        -> "-formfields"
      [] kind = "WithMeta"              -> "-meta"
      [] kind = "WithModeTable"         -> "-table"
      [] kind = "WithOwnerPassword"     -> "-opw"
      [] kind = "WithUserPassword"      -> "-upw"

\* The tokens the closure returned by each option constructor appends to
\* c.args.  WithCustomPath appends nothing (it sets c.path); the closure of
\* WithPageRange builds the two page options and drops them unapplied.
OptTokens(o) ==
    CASE o.kind \in FlagOptions -> <<FlagOf(o.kind)>>
      [] o.kind \in {"WithCustomConfig", "WithOwnerPassword", "WithUserPassword"}
            -> <<FlagOf(o.kind), o.str>>
      [] o.kind \in {"WithPageFrom", "WithPageTo", "WithResolution"}
            -> <<FlagOf(o.kind), FormatUint(o.n1)>>
      [] o.kind \in {"WithInitialZoom", "WithVerticalStretch"}
            -> <<FlagOf(o.kind), FormatFloat(o.n1)>>
      [] o.kind = "WithPageRange" -> <<>>
      [] o.kind = "WithCustomPath" -> <<>>

\* Mutant: an option puts its tokens in front of those already there.
ApplyOptionPrepend(o, c) ==
    IF o.kind = "WithCustomPath" THEN [c EXCEPT !.path = o.str]
    ELSE IF OptTokens(o) = <<>> THEN c
    ELSE LET r == GoAppend(c.arr, c.alen, OptTokens(o))
         IN  [c EXCEPT !.arr = OptTokens(o) \o SubSeq(c.arr, 1, c.alen)
                               \o SubSeq(r.arr, r.len + 1, Len(r.arr)),
                       !.alen = r.len]

\* Mutant: WithCustomPath leaves c.path alone.
ApplyOptionIgnorePath(o, c) ==
    IF OptTokens(o) = <<>> THEN c
    ELSE LET r == GoAppend(c.arr, c.alen, OptTokens(o))
         IN  [c EXCEPT !.arr = r.arr, !.alen = r.len]

\* opt(cmd): the command [path, arr, alen] after the option's closure ran.
ApplyOption(o, c) ==
    IF o.kind = "WithCustomPath" THEN [c EXCEPT !.path = o.str]
    ELSE IF OptTokens(o) = <<>> THEN c
    ELSE LET r == GoAppend(c.arr, c.alen, OptTokens(o))
         IN  [c EXCEPT !.arr = r.arr, !.alen = r.len]

RECURSIVE NewCommandLoop(_, _)
\* The loop of NewCommand over opts, from the command c.
NewCommandLoop(os, c) ==
    IF os = <<>> THEN c
    ELSE NewCommandLoop(Tail(os), ApplyOption(Head(os), c))

\* cmd := &command{path: "/usr/bin/pdftohtml"}: a nil args slice.
NewCmd == [path |-> DefaultPath, arr |-> <<>>, alen |-> 0]

\* c.args as a sequence.
ArgsOf(c) == SubSeq(c.arr, 1, c.alen)

(***************************************************************************)
(* path/filepath and os/exec as used by Run and String.  Start and Wait    *)
(* are those of the Cmd that exec.CommandContext returns: Start gives up   *)
(* on a lookup error, then on a context that is done, before it starts the *)
(* process; a goroutine kills the process when the context ends; Wait      *)
(* returns the process's error and, only if there is none, the context's.  *)
(***************************************************************************)
\* The executables of the file system and the directories of $PATH.
Executables == {"/usr/bin/pdftohtml", "/opt/xpdf/bin/pdftohtml"}
PathDirs == <<"/usr/bin">>

RECURSIVE StripSlashes(_)
StripSlashes(s) ==
    IF Len(s) > 0 /\ SubSeq(s, Len(s), Len(s)) = "/"
    THEN StripSlashes(SubSeq(s, 1, Len(s) - 1))
    ELSE s

RECURSIVE LastElem(_)
LastElem(s) ==
    IF s = "" \/ SubSeq(s, Len(s), Len(s)) = "/" THEN ""
    ELSE LastElem(SubSeq(s, 1, Len(s) - 1)) \o SubSeq(s, Len(s), Len(s))

\* filepath.Base
Base(s) ==
    IF s = "" THEN "."
    ELSE IF StripSlashes(s) = "" THEN "/"
    ELSE LastElem(StripSlashes(s))

NoErr == "<nil>"
ErrCanceled == "context canceled"
ErrDeadline == "context deadline exceeded"
ErrNoCommand == "exec: no command"
ErrNotFound == "exec: executable file not found in $PATH"
ErrNoSuchFile == "fork/exec: no such file or directory"
ErrExit == "exit status 1"
ErrKilled == "signal: killed"

\* The dynamic type of an error value.
ErrType(e) ==
    CASE e \in {ErrExit, ErrKilled}        -> "*exec.ExitError"
      [] e = ErrNotFound                   -> "*exec.Error"
      [] e = ErrNoSuchFile                 -> "*fs.PathError"
      [] e = ErrDeadline                   -> "context.deadlineExceededError"
      [] e \in {ErrCanceled, ErrNoCommand} -> "*errors.errorString"
      [] e = NoErr                         -> "nil"

\* exec.LookPath(name): the first directory of $PATH holding the executable.
LookPath(name) ==
    LET hits == {i \in 1..Len(PathDirs) : (PathDirs[i] \o "/" \o name) \in Executables}
    IN  IF hits = {} THEN [path |-> "", err |-> ErrNotFound]
        ELSE [path |-> PathDirs[CHOOSE i \in hits : \A j \in hits : i <= j] \o "/" \o name,
              err  |-> NoErr]

\* exec.Command(name, arg...): Path, Args and Err of the Cmd.
ExecCommand(name, arg) ==
    LET lp == LookPath(name)
    IN  [Path |-> IF Base(name) = name /\ lp.path # "" THEN lp.path ELSE name,
         Args |-> <<name>> \o arg,
         Err  |-> IF Base(name) = name THEN lp.err ELSE NoErr]

RECURSIVE Join(_, _)
\* strings.Join
Join(ss, sep) ==
    IF ss = <<>> THEN ""
    ELSE IF Len(ss) = 1 THEN ss[1]
    ELSE ss[1] \o sep \o Join(Tail(ss), sep)

\* (*exec.Cmd).String
CmdString(x) ==
    IF x.Err # NoErr THEN Join(x.Args, " ")
    ELSE Join(<<x.Path>> \o Tail(x.Args), " ")

\* ctx.Err() in each state of a context.
CtxErr(k) ==
    CASE k = "canceled" -> ErrCanceled
      [] k = "deadline" -> ErrDeadline
      [] OTHER          -> NoErr

\* Mutant: the context is not looked at before the child is started (a
\* Cmd made with exec.Command instead of exec.CommandContext).
StartErrNoContext(x, k) ==
    IF x.Path = "" /\ x.Err = NoErr THEN ErrNoCommand
    ELSE IF x.Err # NoErr THEN x.Err
    ELSE NoErr

\* What (*exec.Cmd).Start returns before it calls os.StartProcess, and
\* NoErr when it goes on to that call: the lookup error first, then the
\* error of a context that is done at this moment.
StartErr(x, k) ==
    IF x.Path = "" /\ x.Err = NoErr THEN ErrNoCommand
    ELSE IF x.Err # NoErr THEN x.Err
    ELSE IF CtxErr(k) # NoErr THEN CtxErr(k)
    ELSE NoErr

\* The error of os.StartProcess(c.Path, ...), and NoErr when the child was
\* started.
StartProcessErr(x) == IF x.Path \notin Executables THEN ErrNoSuchFile ELSE NoErr

\* What (*exec.Cmd).Wait returns: the process's own error is preferred to
\* the one reported by the goroutine watching the context.
WaitErr(perr, werr) == IF perr = NoErr /\ werr # NoErr THEN werr ELSE perr

(***************************************************************************)
(* State                                                                   *)
(***************************************************************************)
VARIABLES
    phase,   \* "new": NewCommand is applying options; "configured": it returned
    opts,    \* the options NewCommand has applied so far, in order
    cmd,     \* the *command: [path, arr, alen]
    built,   \* path and args of the command when NewCommand returned
    ctx,     \* per caller: the state of the context passed to Run
    call     \* per caller: the Run or String call in progress, or its result

vars == <<phase, opts, cmd, built, ctx, call>>

\* The goroutines calling Run and String on the one command.
Callers == {"g1", "g2"}

\* The positional arguments each caller passes to Run.
InPathOf(g) == IF g = "g1" THEN "a.pdf" ELSE "b.pdf"
OutDirOf(g) == IF g = "g1" THEN "outA" ELSE "outB"

\* The options NewCommand is given: every constructor, each with a few
\* argument values.
Options ==
    {Opt(k, "", 0, 0) : k \in FlagOptions}
    \cup {Opt("WithCustomPath", p, 0, 0) :
            p \in {"/opt/xpdf/bin/pdftohtml", "/nonexistent/pdftohtml",
                   "pdftohtml", "nosuchtool"}}
    \cup {Opt("WithCustomConfig", "/etc/xpdfrc", 0, 0),
          Opt("WithOwnerPassword", "owner pw", 0, 0),
          Opt("WithUserPassword", "secret", 0, 0)}
    \cup {Opt("WithPageFrom", "", n, 0) : n \in {3, 10}}
    \cup {Opt("WithPageTo", "", n, 0) : n \in {7}}
    \cup {Opt("WithPageRange", "", 3, 7)}
    \cup {Opt("WithResolution", "", n, 0) : n \in {150}}
    \cup {Opt("WithInitialZoom", "", m, 0) : m \in {1500, 1125}}
    \cup {Opt("WithVerticalStretch", "", m, 0) : m \in {12500}}

\* The options of the commands that Run and String are called on.
RunOptions ==
    {Opt("WithCustomPath", p, 0, 0) :
        p \in {"/nonexistent/pdftohtml", "pdftohtml", "nosuchtool", ""}}
    \cup {Opt("WithOutdirOverwrite", "", 0, 0),
          Opt("WithPageFrom", "", 3, 0),
          Opt("WithPageRange", "", 3, 7)}

\* The contexts a caller may pass: context.Background(), or one that can be
\* cancelled or has a deadline, in any of its states.
CtxStates == {"background", "active", "canceled", "deadline"}

NoCall ==
    [pc |-> "idle", op |-> "none", pos |-> <<>>, ctx0 |-> "background",
     shared |-> FALSE, local |-> <<>>, Path |-> "", Args |-> <<>>, Err |-> NoErr,
     child |-> "none", reaped |-> FALSE, watch |-> "none", werr |-> NoErr,
     perr |-> NoErr, ret |-> NoErr, out |-> ""]

Init ==
    /\ phase = "new"
    /\ opts = <<>>
    /\ cmd = NewCmd
    /\ built = [path |-> "", args |-> <<>>]
    /\ ctx = [g \in Callers |-> "background"]
    /\ call = [g \in Callers |-> NoCall]

(***************************************************************************)
(* NewCommand                                                              *)
(***************************************************************************)
\* One iteration of the loop of NewCommand: opt(cmd) for the next option.
NewCommandApply(O) ==
    \E o \in O :
        /\ phase = "new"
        /\ Len(opts) < MaxOpts
        /\ opts' = Append(opts, o)
        /\ cmd' = ApplyOption(o, cmd)
        /\ UNCHANGED <<phase, built, ctx, call>>

\* return cmd
NewCommandReturn ==
    /\ phase = "new"
    /\ phase' = "configured"
    /\ built' = [path |-> cmd.path, args |-> ArgsOf(cmd)]
    /\ UNCHANGED <<opts, cmd, ctx, call>>

(***************************************************************************)
(* Run and String, step by step.  Both start with append(c.args, x, y),    *)
(* whose result is never stored back into c.args, and pass it to           *)
(* exec.Command, which copies it into the Cmd's Args.                      *)
(***************************************************************************)
Busy(g) == call[g].pc \notin {"idle", "done"}

\* Mutant: Run appends the output directory before the input path.
RunPositionalsSwapped(inpath, outdir) == <<outdir, inpath>>

\* The two elements Run appends to c.args: append(c.args, inpath, outdir).
RunPositionals(inpath, outdir) == <<inpath, outdir>>

\* Mutant: String appends its placeholders in the other order.
StringPositionalsSwapped == <<"<outdir>", "<inpath>">>

\* The two elements String appends to c.args.
StringPositionals == <<"<inpath>", "<outdir>">>

\* Mutant: the result of append is stored, c.args = append(c.args, ...).
AfterAppendStored(c, r) == [c EXCEPT !.arr = r.arr, !.alen = r.len]

\* c after `append(c.args, ...)` returned r: the result is only passed on,
\* so c.args keeps its length, and its array holds what append wrote
\* when it had room.
AfterAppend(c, r) == IF r.same THEN [c EXCEPT !.arr = r.arr] ELSE c

\* A caller enters Run(ctx, inpath, outdir) with its context in state k, or
\* String().  With seq, calls are made one at a time.
Invoke(g, op, k, seq) ==
    /\ phase = "configured"
    /\ ~Busy(g)
    /\ seq => \A h \in Callers : ~Busy(h)
    /\ call' = [call EXCEPT ![g] =
                  [NoCall EXCEPT !.pc = "append", !.op = op, !.ctx0 = k,
                      !.pos = IF op = "Run"
                              THEN RunPositionals(InPathOf(g), OutDirOf(g))
                              ELSE StringPositionals]]
    /\ ctx' = [ctx EXCEPT ![g] = k]
    /\ UNCHANGED <<phase, opts, cmd, built>>

RunCall(g, K, seq) == \E k \in K : Invoke(g, "Run", k, seq)

StringCall(g, seq) == Invoke(g, "String", "background", seq)

\* append(c.args, x, y) without room for two more: a new array, private to
\* the call.
AppendGrow(g) ==
    /\ call[g].pc = "append"
    /\ cmd.alen + 2 > Len(cmd.arr)
    /\ LET r == GoAppend(cmd.arr, cmd.alen, call[g].pos)
       IN  /\ cmd' = AfterAppend(cmd, r)
           /\ call' = [call EXCEPT ![g].pc = "command", ![g].shared = r.same,
                                    ![g].local = SubSeq(r.arr, 1, r.len)]
    /\ UNCHANGED <<phase, opts, built, ctx>>

\* append(c.args, x, y) with room: x is written into the array of c.args ...
AppendWriteFirst(g) ==
    /\ call[g].pc = "append"
    /\ cmd.alen + 2 <= Len(cmd.arr)
    /\ cmd' = AfterAppend(cmd, GoAppend(cmd.arr, cmd.alen, <<call[g].pos[1]>>))
    /\ call' = [call EXCEPT ![g].pc = "append2"]
    /\ UNCHANGED <<phase, opts, built, ctx>>

\* ... and then y; the result shares the array of c.args.
AppendWriteSecond(g) ==
    /\ call[g].pc = "append2"
    /\ LET r == GoAppend(cmd.arr, cmd.alen + 1, <<call[g].pos[2]>>)
       IN  /\ cmd' = AfterAppend(cmd, r)
           /\ call' = [call EXCEPT ![g].pc = "command", ![g].shared = r.same]
    /\ UNCHANGED <<phase, opts, built, ctx>>

\* The end of exec.Command: String renders the Cmd and returns, Run goes on
\* to cmd.Run().
CommandDone(g, x) ==
    call' = [call EXCEPT ![g].Path = x.Path, ![g].Args = x.Args, ![g].Err = x.Err,
                ![g].pc  = IF call[g].op = "String" THEN "done" ELSE "start",
                ![g].out = IF call[g].op = "String" THEN CmdString(x) ELSE ""]

\* exec.Command on a private argument list.
CommandPrivate(g) ==
    /\ call[g].pc = "command"
    /\ ~call[g].shared
    /\ CommandDone(g, ExecCommand(cmd.path, call[g].local))
    /\ UNCHANGED <<phase, opts, cmd, built, ctx>>

\* exec.Command on a list sharing the array of c.args: the copy reads the
\* first positional element ...
CommandCopyFirst(g) ==
    /\ call[g].pc = "command"
    /\ call[g].shared
    /\ call' = [call EXCEPT ![g].pc = "command2",
                   ![g].local = ArgsOf(cmd) \o <<cmd.arr[cmd.alen + 1]>>]
    /\ UNCHANGED <<phase, opts, cmd, built, ctx>>

\* ... and then the second.
CommandCopySecond(g) ==
    /\ call[g].pc = "command2"
    /\ CommandDone(g, ExecCommand(cmd.path, call[g].local \o <<cmd.arr[cmd.alen + 2]>>))
    /\ UNCHANGED <<phase, opts, cmd, built, ctx>>

\* cmd.Start(), up to its test of the context: it returns the lookup
\* error or the error of a context that is done, or goes on to start the
\* process.  Nothing is locked in between, so the context may end after
\* the test and before os.StartProcess returns.
Start(g) ==
    /\ call[g].pc = "start"
    /\ LET e == StartErr(call[g], ctx[g])
       IN  call' = IF e # NoErr
                   THEN [call EXCEPT ![g].pc = "done", ![g].ret = e]
                   ELSE [call EXCEPT ![g].pc = "fork"]
    /\ UNCHANGED <<phase, opts, cmd, built, ctx>>

\* cmd.Start(): os.StartProcess fails, or the child is started with the
\* Cmd's Args; a context that can end gets a watching goroutine.
StartProcess(g) ==
    /\ call[g].pc = "fork"
    /\ LET e == StartProcessErr(call[g])
       IN  call' = IF e # NoErr
                   THEN [call EXCEPT ![g].pc = "done", ![g].ret = e]
                   ELSE [call EXCEPT ![g].pc = "wait", ![g].child = "running",
                            ![g].watch = IF ctx[g] = "background" THEN "none"
                                         ELSE "select"]
    /\ UNCHANGED <<phase, opts, cmd, built, ctx>>

\* The caller cancels the context, or its deadline passes, during the call.
CtxDone(g) ==
    \E k \in {"canceled", "deadline"} :
        /\ Busy(g)
        /\ ctx[g] = "active"
        /\ ctx' = [ctx EXCEPT ![g] = k]
        /\ UNCHANGED <<phase, opts, cmd, built, call>>

\* The external tool exits by itself, with status 0 or not.
ChildExit(g) ==
    \E st \in {"exited0", "exited1"} :
        /\ call[g].child = "running"
        /\ call' = [call EXCEPT ![g].child = st]
        /\ UNCHANGED <<phase, opts, cmd, built, ctx>>

\* watchCtx: the select takes <-ctx.Done().
WatchFire(g) ==
    /\ call[g].watch = "select"
    /\ ctx[g] \in {"canceled", "deadline"}
    /\ call' = [call EXCEPT ![g].watch = "cancel"]
    /\ UNCHANGED <<phase, opts, cmd, built, ctx>>

\* watchCtx: c.Cancel(), which is Process.Kill().  On a process already
\* waited for it reports os.ErrProcessDone and no error is kept; otherwise
\* the signal is sent and ctx.Err() is kept.
WatchCancel(g) ==
    /\ call[g].watch = "cancel"
    /\ call' = [call EXCEPT ![g].watch = "send",
                   ![g].werr  = IF call[g].reaped THEN NoErr ELSE CtxErr(ctx[g]),
                   ![g].child = IF call[g].child = "running" THEN "killed"
                                ELSE call[g].child]
    /\ UNCHANGED <<phase, opts, cmd, built, ctx>>

\* The error of a terminated child.
ExitErr(st) ==
    CASE st = "exited0" -> NoErr
      [] st = "exited1" -> ErrExit
      [] st = "killed"  -> ErrKilled

\* cmd.Wait(): c.Process.Wait() returns once the child has terminated; with
\* no watching goroutine Wait returns its error.
ProcessWait(g) ==
    /\ call[g].pc = "wait"
    /\ call[g].child \in {"exited0", "exited1", "killed"}
    /\ call' = IF call[g].watch = "none"
               THEN [call EXCEPT ![g].pc = "done", ![g].reaped = TRUE,
                        ![g].perr = ExitErr(call[g].child),
                        ![g].ret  = ExitErr(call[g].child)]
               ELSE [call EXCEPT ![g].pc = "recv", ![g].reaped = TRUE,
                        ![g].perr = ExitErr(call[g].child)]
    /\ UNCHANGED <<phase, opts, cmd, built, ctx>>

\* cmd.Wait(): the receive from the watching goroutine, which either is
\* still in its select (and sends an empty result) or sends what Cancel
\* left it.
WaitRecv(g) ==
    /\ call[g].pc = "recv"
    /\ call[g].watch \in {"select", "send"}
    /\ call' = [call EXCEPT ![g].pc = "done", ![g].watch = "exit",
                   ![g].ret = WaitErr(call[g].perr,
                                      IF call[g].watch = "send" THEN call[g].werr
                                      ELSE NoErr)]
    /\ UNCHANGED <<phase, opts, cmd, built, ctx>>

(***************************************************************************)
(* Specifications                                                          *)
(***************************************************************************)
\* NewCommand over every option.
Next ==
    \/ NewCommandApply(Options)
    \/ NewCommandReturn

Spec == Init /\ [][Next]_vars

\* The steps of a call in progress.
CallStep(g) ==
    \/ AppendGrow(g)
    \/ AppendWriteFirst(g)
    \/ AppendWriteSecond(g)
    \/ CommandPrivate(g)
    \/ CommandCopyFirst(g)
    \/ CommandCopySecond(g)
    \/ Start(g)
    \/ StartProcess(g)
    \/ ChildExit(g)
    \/ ProcessWait(g)

\* The steps that depend on a context that can end.
CtxStep(g) ==
    \/ CtxDone(g)
    \/ WatchFire(g)
    \/ WatchCancel(g)
    \/ WaitRecv(g)

\* A configured command used by one caller at a time, with any context.
SeqNext ==
    \/ NewCommandApply(RunOptions)
    \/ NewCommandReturn
    \/ \E g \in Callers : RunCall(g, CtxStates, TRUE)
    \/ \E g \in Callers : StringCall(g, TRUE)
    \/ \E g \in Callers : CallStep(g)
    \/ \E g \in Callers : CtxStep(g)

SeqSpec == Init /\ [][SeqNext]_vars

\* A configured command on which the callers run Run concurrently, each
\* with context.Background().
ConcNext ==
    \/ NewCommandApply(RunOptions)
    \/ NewCommandReturn
    \/ \E g \in Callers : RunCall(g, {"background"}, FALSE)
    \/ \E g \in Callers : CallStep(g)

ConcSpec == Init /\ [][ConcNext]_vars

(***************************************************************************)
(* Properties                                                              *)
(***************************************************************************)
RECURSIVE ConcatTokens(_)
\* The tokens of the options os, each option's after its predecessors'.
ConcatTokens(os) ==
    IF os = <<>> THEN <<>> ELSE OptTokens(Head(os)) \o ConcatTokens(Tail(os))

RECURSIVE ExpandPageRange(_)
\* os with every WithPageRange(from, to) replaced, in place, by
\* WithPageFrom(from), WithPageTo(to).
ExpandPageRange(os) ==
    IF os = <<>> THEN <<>>
    ELSE IF Head(os).kind = "WithPageRange"
         THEN <<Opt("WithPageFrom", "", Head(os).n1, 0),
                Opt("WithPageTo", "", Head(os).n2, 0)>> \o ExpandPageRange(Tail(os))
         ELSE <<Head(os)>> \o ExpandPageRange(Tail(os))

\* C1: NewCommand with WithPageRange(from, to) among its options yields the
\* argument sequence of NewCommand with WithPageFrom(from), WithPageTo(to)
\* in its place ("-f", from, "-l", to, in that order).
C1_PageRangeAsFromTo ==
    phase = "configured" =>
        ArgsOf(cmd) = ArgsOf(NewCommandLoop(ExpandPageRange(opts), NewCmd))

\* C2: the argument sequence is the concatenation, in application order, of
\* the tokens each option appends, so an earlier option's tokens precede a
\* later one's and a flag that takes a value is directly followed by it.
C2_ArgsInApplicationOrder == ArgsOf(cmd) = ConcatTokens(opts)

C2_Witness ==
    /\ phase = "configured"
    /\ opts = <<Opt("WithCustomConfig", "/etc/xpdfrc", 0, 0),
                Opt("WithOutdirOverwrite", "", 0, 0),
                Opt("WithPageTo", "", 7, 0)>>
    /\ ArgsOf(cmd) = <<"-cfg", "/etc/xpdfrc", "-overwrite", "-l", "7">>

\* The calls of Run that started a child process.
Launched == {g \in Callers : call[g].op = "Run" /\ call[g].child # "none"}

\* C3: the argument vector of the child that Run starts is the program
\* name followed by the command's flags, then inpath, then outdir: the
\* positional arguments are its last two elements.
C3_ChildArgsAreFlagsThenPaths ==
    \A g \in Launched :
        call[g].Args = <<cmd.path>> \o ConcatTokens(opts) \o <<InPathOf(g), OutDirOf(g)>>

C3_Witness ==
    \E g \in Launched :
        call[g].Args = <<DefaultPath, "-overwrite", "-f", "3", InPathOf(g), OutDirOf(g)>>

\* C4: with all options applied before the first Run and Run calls made
\* concurrently on the one command, every child is started with the
\* program name, the command's flags, and then the inpath and outdir of
\* the call that started it; no element is a path passed by another call.
C4_ConcurrentRunsKeepOwnPaths ==
    \A g \in Launched :
        /\ call[g].Args = <<built.path>> \o built.args \o <<InPathOf(g), OutDirOf(g)>>
        /\ \A h \in Callers \ {g} : \A i \in 1..Len(call[g].Args) :
              call[g].Args[i] \notin {InPathOf(h), OutDirOf(h)}

\* C5: whatever Run and String calls were made, the command's path and
\* argument sequence are those it had when NewCommand returned.
C5_CommandUnchangedByCalls ==
    phase = "configured" => cmd.path = built.path /\ ArgsOf(cmd) = built.args

C5_Witness ==
    \E g \in Callers, h \in Callers :
        /\ call[g].op = "Run" /\ call[g].pc = "done" /\ call[g].child # "none"
        /\ call[h].op = "String" /\ call[h].pc = "done"
        /\ cmd.alen > 0
        /\ cmd.alen + 2 <= Len(cmd.arr)
        /\ cmd.arr[cmd.alen + 1] = "<inpath>"

\* The calls of Run that have returned.
Returned == {g \in Callers : call[g].op = "Run" /\ call[g].pc = "done"}

CtxErrors == {ErrCanceled, ErrDeadline}
LaunchErrors == {ErrNoCommand, ErrNotFound, ErrNoSuchFile}

\* The name cannot be resolved when the Cmd is made: it is empty, or has no
\* separator and is in no directory of $PATH.
Unresolved(p) ==
    \/ p = ""
    \/ /\ \A i \in 1..Len(p) : SubSeq(p, i, i) # "/"
       /\ \A i \in 1..Len(PathDirs) : (PathDirs[i] \o "/" \o p) \notin Executables

\* C6 as stated: Run with a context that is already cancelled or past its
\* deadline returns a cancellation error and leaves no process running.
C6_CancelledBeforeRun ==
    \A g \in Returned :
        call[g].ctx0 \in {"canceled", "deadline"} =>
            call[g].ret \in CtxErrors /\ call[g].child # "running"

\* C6 as amended: such a Run starts no process, and returns the context's
\* error unless the executable's name cannot be resolved, in which case it
\* returns that launch error.
C6_CancelledBeforeRunAmended ==
    \A g \in Callers :
        (call[g].op = "Run" /\ call[g].ctx0 \in {"canceled", "deadline"}) =>
            /\ call[g].child = "none"
            /\ call[g].pc = "done" =>
                  call[g].ret = IF cmd.path = "" THEN ErrNoCommand
                                ELSE IF Unresolved(cmd.path) THEN ErrNotFound
                                ELSE CtxErr(call[g].ctx0)

C6_Witness ==
    \E g \in Returned :
        /\ call[g].ctx0 = "canceled"
        /\ call[g].ret = ErrCanceled
        /\ cmd.path = DefaultPath

RECURSIVE LastCustomPath(_)
\* The path given by the last WithCustomPath among os, as a one-element
\* sequence, or <<>> when there is none.
LastCustomPath(os) ==
    IF os = <<>> THEN <<>>
    ELSE IF os[Len(os)].kind = "WithCustomPath" THEN <<os[Len(os)].str>>
    ELSE LastCustomPath(SubSeq(os, 1, Len(os) - 1))

\* The path was overridden to one where no executable is.
OverriddenToMissing ==
    /\ LastCustomPath(opts) # <<>>
    /\ LET p == LastCustomPath(opts)[1]
       IN  Unresolved(p) \/ ((\E i \in 1..Len(p) : SubSeq(p, i, i) = "/") /\ p \notin Executables)

\* C7 as stated: with the path overridden to a nonexistent one, every Run
\* returns a launch error and starts no child.
C7_MissingExecutable ==
    OverriddenToMissing =>
        \A g \in Returned : call[g].ret \in LaunchErrors /\ call[g].child = "none"

\* C7 as amended: every such Run fails and starts no child; it returns a
\* launch error, except that for a path with a separator and a context
\* already done when Start tests it, it returns the context's error.  (A
\* context that ends after that test leaves the launch error.)
C7_MissingExecutableAmended ==
    OverriddenToMissing =>
        \A g \in Callers : call[g].op = "Run" =>
            /\ call[g].child = "none"
            /\ call[g].pc = "done" =>
                  /\ call[g].ret # NoErr
                  /\ \/ call[g].ret \in LaunchErrors
                     \/ /\ ~Unresolved(cmd.path)
                        /\ ctx[g] \in {"canceled", "deadline"}
                        /\ call[g].ret = CtxErr(ctx[g])

C7_Witness ==
    \E g \in Returned :
        /\ OverriddenToMissing
        /\ cmd.path = "/nonexistent/pdftohtml"
        /\ call[g].ret = ErrNoSuchFile
        /\ call[g].ctx0 = "active"
        /\ ctx[g] = "canceled"

\* C8: when the context ended while the child was running and the child was
\* killed for it, Run returns a cancellation or timeout error.
C8_KilledRunReturnsCtxError ==
    \A g \in Returned : call[g].child = "killed" => call[g].ret \in CtxErrors

\* C9: a Run whose child was killed because the context ended and a Run
\* whose tool exited non-zero by itself never return errors of one kind.
C9_CancelDistinctFromToolFailure ==
    \A g \in Returned, h \in Returned :
        (call[g].child = "killed" /\ call[h].child = "exited1" /\ call[h].ret = ErrExit)
            => ErrType(call[g].ret) # ErrType(call[h].ret)

\* The path String shows: a bare name found in $PATH is shown resolved.
ShownPath(p) ==
    IF Unresolved(p) \/ (\E i \in 1..Len(p) : SubSeq(p, i, i) = "/") THEN p
    ELSE PathDirs[CHOOSE i \in 1..Len(PathDirs) : (PathDirs[i] \o "/" \o p) \in Executables]
           \o "/" \o p

\* C10: String() renders the executable path, then the flags in the order
\* applied, then "<inpath>" and "<outdir>", separated by spaces, and starts
\* no process.
C10_StringRendersCommandLine ==
    \A g \in Callers : call[g].op = "String" =>
        /\ call[g].child = "none"
        /\ call[g].pc = "done" =>
              call[g].out = Join(<<ShownPath(cmd.path)>> \o ConcatTokens(opts)
                                    \o <<"<inpath>", "<outdir>">>, " ")

C10_Witness ==
    \E g \in Callers :
        /\ call[g].op = "String"
        /\ call[g].pc = "done"
        /\ call[g].out = "/usr/bin/pdftohtml -overwrite -f 3 <inpath> <outdir>"

====
